---- MODULE Spec2Model ----
(***************************************************************************)
(* Model of the CPU cache reporter in src/src/main.rs: construct the       *)
(* ProcessorInfo, detect architecture and model name, collect the cache    *)
(* sizes with the strategy of the running OS, render.                      *)
(*                                                                         *)
(* Text is a TLA+ string; a character is a string of length 1.  A usize is *)
(* a little-endian sequence of WordLimbs limbs of 16 bits each, so that    *)
(* 64-bit values and their overflow are computed exactly although the      *)
(* model checker's own integers are 32 bits wide.                          *)
(***************************************************************************)
EXTENDS Integers, Sequences, FiniteSets, TLC

\* ------------------------------------------------------------------------
\* usize arithmetic
\* ------------------------------------------------------------------------

\* Width of usize on the 64-bit targets (macOS, Linux and Windows on
\* x86_64 / aarch64).
UsizeBits == 64

\* A limb holds 16 bits.
Base == 2 ^ 16

WordLimbs == UsizeBits \div 16

\* The k-limb representation of a small natural n.
RECURSIVE Limbs(_, _)
Limbs(n, k) ==
    IF k = 0 THEN <<>> ELSE <<n % Base>> \o Limbs(n \div Base, k - 1)

\* The usize holding the small natural n.
W(n) == Limbs(n, WordLimbs)

IsZero(a) == \A j \in 1..Len(a) : a[j] = 0

\* a and b with the same number of limbs.
RECURSIVE LimbsLess(_, _)
LimbsLess(a, b) ==
    IF Len(a) = 0 THEN FALSE
    ELSE IF a[Len(a)] # b[Len(b)] THEN a[Len(a)] < b[Len(b)]
    ELSE LimbsLess(SubSeq(a, 1, Len(a) - 1), SubSeq(b, 1, Len(b) - 1))

\* a + 0...0, padded with zero limbs to k limbs.
Pad(a, k) == a \o [j \in 1..(k - Len(a)) |-> 0]

\* Comparison of two naturals given with any numbers of limbs.
Less(a, b) ==
    LET k == IF Len(a) > Len(b) THEN Len(a) ELSE Len(b)
    IN  LimbsLess(Pad(a, k), Pad(b, k))

\* a * m + c for small m and c: one limb longer than a, never overflowing.
RECURSIVE MulAdd(_, _, _)
MulAdd(a, m, c) ==
    IF Len(a) = 0 THEN <<c>>
    ELSE LET t == Head(a) * m + c
         IN  <<t % Base>> \o MulAdd(Tail(a), m, t \div Base)

\* <<quotient, remainder>> of a by a small d.
RECURSIVE DivMod(_, _)
DivMod(a, d) ==
    IF Len(a) = 0 THEN <<(<<>>), 0>>
    ELSE LET hi == DivMod(Tail(a), d)
             t  == hi[2] * Base + Head(a)
         IN  <<(<<t \div d>>) \o hi[1], t % d>>

\* The low WordLimbs limbs: the value modulo 2^UsizeBits.
Wrap(a) == SubSeq(a, 1, WordLimbs)

\* Whether a natural fits a usize.
Fits(a) == \A j \in (WordLimbs + 1)..Len(a) : a[j] = 0

\* The natural p as the result of checked usize arithmetic (checked_mul,
\* checked_add): None when it does not fit.
checked(p) ==
    IF Fits(p) THEN [ok |-> TRUE, val |-> Wrap(p)] ELSE [ok |-> FALSE]

\* ------------------------------------------------------------------------
\* str primitives
\* ------------------------------------------------------------------------

DigitVal ==
    ("0" :> 0) @@ ("1" :> 1) @@ ("2" :> 2) @@ ("3" :> 3) @@ ("4" :> 4) @@
    ("5" :> 5) @@ ("6" :> 6) @@ ("7" :> 7) @@ ("8" :> 8) @@ ("9" :> 9)

\* char::is_digit(10)
is_digit(c) == c \in DOMAIN DigitVal

\* char::is_whitespace, for the characters the inputs are made of.
is_whitespace(c) == c \in {" ", "\n", "\r", "\t"}

RECURSIVE trim_start(_)
trim_start(s) ==
    IF Len(s) > 0 /\ is_whitespace(Head(s)) THEN trim_start(Tail(s)) ELSE s

RECURSIVE trim_end(_)
trim_end(s) ==
    IF Len(s) > 0 /\ is_whitespace(SubSeq(s, Len(s), Len(s)))
    THEN trim_end(SubSeq(s, 1, Len(s) - 1))
    ELSE s

trim(s) == trim_end(trim_start(s))

starts_with(s, p) == Len(s) >= Len(p) /\ SubSeq(s, 1, Len(p)) = p

ends_with(s, p) ==
    Len(s) >= Len(p) /\ SubSeq(s, Len(s) - Len(p) + 1, Len(s)) = p

contains(s, p) ==
    \E j \in 1..(Len(s) - Len(p) + 1) : SubSeq(s, j, j + Len(p) - 1) = p

\* str::trim_start_matches: every repetition of the prefix is removed.
RECURSIVE trim_start_matches(_, _)
trim_start_matches(s, p) ==
    IF Len(p) > 0 /\ starts_with(s, p)
    THEN trim_start_matches(SubSeq(s, Len(p) + 1, Len(s)), p)
    ELSE s

\* The text before the first occurrence of character c (all of s if none).
RECURSIVE Before(_, _)
Before(s, c) ==
    IF Len(s) = 0 \/ Head(s) = c THEN ""
    ELSE Head(s) \o Before(Tail(s), c)

\* str::split(c): the pieces between the occurrences of c.
RECURSIVE split(_, _)
split(s, c) ==
    LET first == Before(s, c)
    IN  IF Len(first) = Len(s) THEN <<first>>
        ELSE <<first>> \o split(SubSeq(s, Len(first) + 2, Len(s)), c)

\* str::lines: split at "\n", a final empty piece dropped, a "\r" before
\* the line end removed.
lines(s) ==
    LET raw   == split(s, "\n")
        kept  == IF raw[Len(raw)] = "" THEN SubSeq(raw, 1, Len(raw) - 1)
                 ELSE raw
        strip(l) == IF ends_with(l, "\r") THEN SubSeq(l, 1, Len(l) - 1) ELSE l
    IN  [j \in 1..Len(kept) |-> strip(kept[j])]

\* The leading run of decimal digits: chars().take_while(is_digit).collect()
RECURSIVE take_while_digit(_)
take_while_digit(s) ==
    IF Len(s) > 0 /\ is_digit(Head(s))
    THEN Head(s) \o take_while_digit(Tail(s))
    ELSE ""

\* The digit loop of usize::from_str: acc * 10 + digit, both checked; r is
\* the result so far.
RECURSIVE ParseDigits(_, _)
ParseDigits(s, r) ==
    IF ~r.ok \/ Len(s) = 0 THEN r
    ELSE IF ~is_digit(Head(s)) THEN [ok |-> FALSE]
    ELSE ParseDigits(Tail(s), checked(MulAdd(r.val, 10, DigitVal[Head(s)])))

\* str::parse::<usize>(): an optional "+", then one or more digits, the
\* value within usize; anything else is an Err.
parse_usize(s) ==
    LET body == IF Len(s) > 1 /\ Head(s) = "+" THEN Tail(s) ELSE s
    IN  IF Len(body) = 0 THEN [ok |-> FALSE]
        ELSE ParseDigits(body, [ok |-> TRUE, val |-> W(0)])

\* Result::unwrap_or
unwrap_or(r, default) == IF r.ok THEN r.val ELSE default

\* ------------------------------------------------------------------------
\* Build and platform
\* ------------------------------------------------------------------------

VARIABLES
    os,               \* env::consts::OS
    arch,             \* env::consts::ARCH
    overflow_checks,  \* whether the build panics on arithmetic overflow
    world,            \* the host: command or file path -> what it answers
    pc,               \* position of main
    architecture,     \* ProcessorInfo.architecture
    model_name,       \* ProcessorInfo.model_name
    performance_levels, \* ProcessorInfo.performance_levels: name -> level
    proc_level,       \* the level under construction in a collect_* function
    perf_levels,      \* the tier count of the Apple-silicon branch
    idx,              \* the loop index of the collect_* function
    queries,          \* the external queries issued so far, in order
    stderr,           \* the diagnostics written
    stdout,           \* what main printed
    exit,             \* how main ended: "running", "ok", "err", "panic"
    arg,              \* unit level: <<function, argument>>, or <<>>
    ret               \* unit level: <<result>> once the function was applied

vars == <<os, arch, overflow_checks, world, pc, architecture, model_name,
          performance_levels, proc_level, perf_levels, idx, queries,
          stderr, stdout, exit, arg, ret>>

\* ------------------------------------------------------------------------
\* Unit conversion
\* ------------------------------------------------------------------------

\* w * m as the build computes it: the product modulo 2^UsizeBits, or a
\* panic when it overflows and the build checks overflow.
product(p) ==
    IF ~Fits(p) /\ overflow_checks THEN [panic |-> TRUE]
    ELSE [panic |-> FALSE, val |-> Wrap(p)]

mul(r, m) == IF r.panic THEN r ELSE product(MulAdd(r.val, m, 0))

parse_size_with_unit(size_str) ==
    LET numeric_part == take_while_digit(size_str)
        base_size == [panic |-> FALSE,
                      val |-> unwrap_or(parse_usize(numeric_part), W(0))]
    IN  IF ends_with(size_str, "K") THEN mul(base_size, 1024)
        ELSE IF ends_with(size_str, "M") THEN mul(mul(base_size, 1024), 1024)
        ELSE IF ends_with(size_str, "G")
             THEN mul(mul(mul(base_size, 1024), 1024), 1024)
        ELSE base_size

RECURSIVE BitLenInt(_)
BitLenInt(n) == IF n = 0 THEN 0 ELSE 1 + BitLenInt(n \div 2)

\* Number of significant bits of a natural.
RECURSIVE BitLen(_)
BitLen(a) ==
    IF Len(a) = 0 THEN 0
    ELSE IF a[Len(a)] # 0 THEN 16 * (Len(a) - 1) + BitLenInt(a[Len(a)])
    ELSE BitLen(SubSeq(a, 1, Len(a) - 1))

\* q, or q + 1 when the dropped part r of d is above one half, or is one
\* half and q is odd (round to nearest, ties to even).
RoundHalfEven(q, r, d) ==
    IF 2 * r > d \/ (2 * r = d /\ q[1] % 2 = 1) THEN MulAdd(q, 1, 1)
    ELSE q

\* `size as f64`: the nearest value with a 53-bit significand.
round_to(qr, d) == MulAdd(RoundHalfEven(qr[1], qr[2], d), d, 0)

as_f64(size) ==
    LET e == BitLen(size) - 53
    IN  IF e <= 0 THEN size ELSE round_to(DivMod(size, 2 ^ e), 2 ^ e)

\* <<quotient, remainder>> of a by 1024^u (u <= 3).
RECURSIVE DivPow1024(_, _)
DivPow1024(a, u) ==
    IF u = 0 THEN <<a, 0>>
    ELSE LET d1   == DivMod(a, 1024)
             rest == DivPow1024(d1[1], u - 1)
         IN  <<rest[1], d1[2] + 1024 * rest[2]>>

RECURSIVE Digits(_)
Digits(a) ==
    IF IsZero(a) THEN ""
    ELSE LET d == DivMod(a, 10) IN Digits(d[1]) \o ToString(d[2])

\* format!("{}", n)
to_string(a) == IF IsZero(a) THEN "0" ELSE Digits(a)

\* format!("{:.2}", f / 1024^u): f / 1024^u is exact in f64; the decimal
\* expansion is rounded to two places, ties to even.
hundredths(qr, d) == DivMod(RoundHalfEven(qr[1], qr[2], d), 100)

decimal2(ip) ==
    to_string(ip[1]) \o "." \o ToString(ip[2] \div 10) \o ToString(ip[2] % 10)

fixed2(f, u) ==
    decimal2(hundredths(DivPow1024(MulAdd(f, 100, 0), u), 1024 ^ u))

\* format_size with the byte threshold off by one: `size <= KB`.
format_size_inclusive(size) ==
    IF IsZero(size) THEN "Not detected"
    ELSE IF Less(size, W(1025)) THEN to_string(size) \o " B"
    ELSE IF Less(size, W(1024 * 1024))
         THEN fixed2(as_f64(size), 1) \o " KB"
    ELSE IF Less(size, W(1024 * 1024 * 1024))
         THEN fixed2(as_f64(size), 2) \o " MB"
    ELSE fixed2(as_f64(size), 3) \o " GB"

format_size(size) ==
    IF IsZero(size) THEN "Not detected"
    ELSE IF Less(size, W(1024)) THEN to_string(size) \o " B"
    ELSE IF Less(size, W(1024 * 1024))
         THEN fixed2(as_f64(size), 1) \o " KB"
    ELSE IF Less(size, W(1024 * 1024 * 1024))
         THEN fixed2(as_f64(size), 2) \o " MB"
    ELSE fixed2(as_f64(size), 3) \o " GB"

\* ------------------------------------------------------------------------
\* Normalized model and renderer
\* ------------------------------------------------------------------------

\* CacheInfo::default()
CacheInfo_default ==
    [instruction_size |-> W(0), data_size |-> W(0), unified_size |-> W(0)]

\* ProcessorLevel::new
ProcessorLevel_new(name) ==
    [level_name |-> name, l1_cache |-> CacheInfo_default,
     l2_cache |-> W(0), l3_cache |-> W(0)]

\* CacheInfo::format without the early unified branch: the instruction
\* and data lines follow the unified line.
CacheInfo_format_all(self) ==
    (IF ~IsZero(self.unified_size)
     THEN <<"L1 Cache (Unified): " \o format_size(self.unified_size)>>
     ELSE <<>>)
    \o
    (IF ~IsZero(self.instruction_size)
     THEN <<"L1 Instruction Cache: " \o format_size(self.instruction_size)>>
     ELSE <<>>)
    \o
    (IF ~IsZero(self.data_size)
     THEN <<"L1 Data Cache: " \o format_size(self.data_size)>>
     ELSE <<>>)

CacheInfo_format(self) ==
    IF ~IsZero(self.unified_size)
    THEN <<"L1 Cache (Unified): " \o format_size(self.unified_size)>>
    ELSE (IF ~IsZero(self.instruction_size)
          THEN <<"L1 Instruction Cache: "
                     \o format_size(self.instruction_size)>>
          ELSE <<>>)
         \o
         (IF ~IsZero(self.data_size)
          THEN <<"L1 Data Cache: " \o format_size(self.data_size)>>
          ELSE <<>>)

\* str::repeat
RECURSIVE repeat(_, _)
repeat(s, n) == IF n = 0 THEN "" ELSE s \o repeat(s, n - 1)

ProcessorLevel_format(self) ==
    <<"\n" \o self.level_name, repeat("-", Len(self.level_name))>>
    \o CacheInfo_format(self.l1_cache)
    \o <<"L2 Cache: " \o format_size(self.l2_cache)>>
    \o (IF ~IsZero(self.l3_cache)
        THEN <<"L3 Cache: " \o format_size(self.l3_cache)>>
        ELSE <<>>)

\* The lines of the levels, in the order the map's iterator yields them.
RECURSIVE level_lines(_, _)
level_lines(levels, order) ==
    IF Len(order) = 0 THEN <<>>
    ELSE ProcessorLevel_format(levels[Head(order)])
         \o level_lines(levels, Tail(order))

\* [String]::join
RECURSIVE join(_, _)
join(v, sep) ==
    IF Len(v) = 0 THEN ""
    ELSE IF Len(v) = 1 THEN v[1]
    ELSE v[1] \o sep \o join(Tail(v), sep)

\* The Vec that display builds, for one iteration order of the map.
display_lines(order) ==
    <<"Architecture: " \o architecture \o " - " \o arch>>
    \o (IF model_name # "" THEN <<"CPU Model: " \o model_name>> ELSE <<>>)
    \o <<"\nCache Information:", "==================">>
    \o level_lines(performance_levels, order)

display(order) == join(display_lines(order), "\n")

\* ------------------------------------------------------------------------
\* Collaborators: the command runner and the file reader
\* ------------------------------------------------------------------------

Failure == [ok |-> FALSE, out |-> ""]

Success(text) == [ok |-> TRUE, out |-> text]

\* Command::new(..).args(..).output(): a failure when the command cannot be
\* run, else the captured standard output.  A command the host does not
\* know prints nothing to standard output.
command_output(cmd) ==
    IF cmd \in DOMAIN world THEN world[cmd] ELSE Success("")

Sysctl(parameter) == "sysctl -n " \o parameter

run_sysctl(parameter) ==
    LET output == command_output(Sysctl(parameter))
    IN  IF output.ok THEN Success(trim(output.out)) ELSE Failure

\* File::open and read_to_string: a failure for a missing or unreadable
\* file, else its content.
read_file(path) ==
    IF path \in DOMAIN world THEN world[path] ELSE Failure

BrandString == "machdep.cpu.brand_string"

WmicName == "wmic cpu get name /value"

WmicCache == "wmic cpu get L1CacheSize,L2CacheSize,L3CacheSize /value"

CpuInfo == "/proc/cpuinfo"

cache_dir(i) == "/sys/devices/system/cpu/cpu0/cache/index" \o ToString(i)

\* ------------------------------------------------------------------------
\* Phase 1: architecture and model name
\* ------------------------------------------------------------------------

\* The queries detect_arm_type issues.
detect_arm_type_queries ==
    IF os = "macos" THEN <<Sysctl(BrandString)>> ELSE <<>>

detect_arm_type ==
    IF os = "macos"
    THEN LET output == command_output(Sysctl(BrandString))
         IN  IF output.ok /\ contains(output.out, "Apple")
             THEN "Apple Silicon"
             ELSE "ARM"
    ELSE "ARM"

detect_architecture ==
    /\ pc = "detect_architecture"
    /\ IF architecture \in {"x86", "x86_64"}
       THEN /\ architecture' = "x86"
            /\ UNCHANGED queries
       ELSE IF architecture \in {"aarch64", "arm", "arm64"}
       THEN /\ architecture' = detect_arm_type
            /\ queries' = queries \o detect_arm_type_queries
       ELSE /\ architecture' = "Unknown: " \o architecture
            /\ UNCHANGED queries
    /\ pc' = "detect_model_name"
    /\ UNCHANGED <<os, arch, overflow_checks, world, model_name,
                   performance_levels, proc_level, perf_levels, idx,
                   stderr, stdout, exit, arg, ret>>

\* The first line that starts with `key` and has a second ':' piece gives
\* the name; model_name is kept when there is none.
RECURSIVE cpuinfo_model(_, _)
cpuinfo_model(ls, current) ==
    IF Len(ls) = 0 THEN current
    ELSE IF starts_with(Head(ls), "model name")
            /\ Len(split(Head(ls), ":")) >= 2
    THEN trim(split(Head(ls), ":")[2])
    ELSE cpuinfo_model(Tail(ls), current)

RECURSIVE wmic_name(_, _)
wmic_name(ls, current) ==
    IF Len(ls) = 0 THEN current
    ELSE IF starts_with(Head(ls), "Name=")
    THEN trim(trim_start_matches(Head(ls), "Name="))
    ELSE wmic_name(Tail(ls), current)

detect_model_name_linux ==
    LET file == read_file(CpuInfo)
    IN  /\ queries' = Append(queries, CpuInfo)
        /\ model_name' = IF file.ok
                         THEN cpuinfo_model(lines(file.out), model_name)
                         ELSE model_name

detect_model_name_macos ==
    LET output == command_output(Sysctl(BrandString))
    IN  /\ queries' = Append(queries, Sysctl(BrandString))
        /\ model_name' = IF output.ok THEN trim(output.out) ELSE model_name

detect_model_name_windows ==
    LET output == command_output(WmicName)
    IN  /\ queries' = Append(queries, WmicName)
        /\ model_name' = IF output.ok
                         THEN wmic_name(lines(output.out), model_name)
                         ELSE model_name

detect_model_name ==
    /\ pc = "detect_model_name"
    /\ IF os = "linux" THEN detect_model_name_linux
       ELSE IF os = "macos" THEN detect_model_name_macos
       ELSE IF os = "windows" THEN detect_model_name_windows
       ELSE UNCHANGED <<queries, model_name>>
    /\ pc' = "collect_cache_info"
    /\ UNCHANGED <<os, arch, overflow_checks, world, architecture,
                   performance_levels, proc_level, perf_levels, idx,
                   stderr, stdout, exit, arg, ret>>

\* ------------------------------------------------------------------------
\* Phase 2: cache detection
\* ------------------------------------------------------------------------

\* HashMap::insert
insert(map, key, value) == (key :> value) @@ map

\* main's `?`: the error leaves main before display.
ReturnErr ==
    /\ pc' = "done"
    /\ exit' = "err"

\* A panic unwinds main.
Panic ==
    /\ pc' = "done"
    /\ exit' = "panic"

\* The unsupported-OS arm returning an error after the diagnostic.
collect_unsupported_err ==
    /\ stderr' = Append(stderr, "Unsupported operating system: " \o os)
    /\ ReturnErr
    /\ UNCHANGED <<proc_level, idx, performance_levels>>

collect_unsupported ==
    /\ stderr' = Append(stderr, "Unsupported operating system: " \o os)
    /\ pc' = "display"
    /\ UNCHANGED <<proc_level, idx, exit, performance_levels>>

\* The dispatch of collect_cache_info and of collect_macos_cache_info.
collect_cache_info ==
    /\ pc = "collect_cache_info"
    /\ IF os = "macos"
       THEN /\ IF architecture = "Apple Silicon"
               THEN /\ pc' = "apple_nperflevels"
                    /\ UNCHANGED proc_level
               ELSE /\ pc' = "intel_l1"
                    /\ proc_level' = ProcessorLevel_new("Default")
            /\ UNCHANGED <<idx, stderr, exit, performance_levels>>
       ELSE IF os = "linux"
       THEN /\ pc' = "linux"
            /\ UNCHANGED <<proc_level, idx, stderr, exit, performance_levels>>
       ELSE IF os = "windows"
       THEN /\ pc' = "windows"
            /\ UNCHANGED <<proc_level, idx, stderr, exit, performance_levels>>
       ELSE collect_unsupported
    /\ UNCHANGED <<os, arch, overflow_checks, world, architecture,
                   model_name, perf_levels, queries, stdout, arg, ret>>

\* run_sysctl(parameter)?.parse::<usize>().unwrap_or(default), the `?` not
\* yet applied: ok is FALSE when the command could not be run.
sysctl_usize(parameter, default) ==
    LET r == run_sysctl(parameter)
    IN  [ok |-> r.ok, val |-> unwrap_or(parse_usize(r.out), default)]

\* --- Apple silicon -------------------------------------------------------

apple_level_name(level) ==
    IF level = 0 THEN "Performance Cores"
    ELSE "Efficiency Cores (Level " \o ToString(level) \o ")"

perflevel(level, what) == "hw.perflevel" \o ToString(level) \o "." \o what

\* The L3 query made for every tier.
apple_queries_l3_always(level) == level >= 0

\* Whether the tier queries the global L3 size.
apple_queries_l3(level) == level = 0

apple_insert ==
    /\ performance_levels' =
           insert(performance_levels, proc_level'.level_name, proc_level')
    /\ idx' = idx + 1
    /\ pc' = "apple_level"

apple_nperflevels ==
    /\ pc = "apple_nperflevels"
    /\ queries' = Append(queries, Sysctl("hw.nperflevels"))
    /\ LET r == sysctl_usize("hw.nperflevels", W(1))
       IN  IF r.ok
           THEN /\ perf_levels' = r.val
                /\ idx' = 0
                /\ pc' = "apple_level"
                /\ UNCHANGED exit
           ELSE /\ ReturnErr
                /\ UNCHANGED <<perf_levels, idx>>
    /\ UNCHANGED <<os, arch, overflow_checks, world, architecture,
                   model_name, performance_levels, proc_level, stderr,
                   stdout, arg, ret>>

\* The head of `for level in 0..perf_levels`.
apple_level ==
    /\ pc = "apple_level"
    /\ IF Less(W(idx), perf_levels)
       THEN /\ proc_level' = ProcessorLevel_new(apple_level_name(idx))
            /\ pc' = "apple_l1i"
       ELSE /\ pc' = "display"
            /\ UNCHANGED proc_level
    /\ UNCHANGED <<os, arch, overflow_checks, world, architecture,
                   model_name, performance_levels, perf_levels, idx,
                   queries, stderr, stdout, exit, arg, ret>>

apple_l1i ==
    /\ pc = "apple_l1i"
    /\ queries' = Append(queries, Sysctl(perflevel(idx, "l1icachesize")))
    /\ LET r == sysctl_usize(perflevel(idx, "l1icachesize"), W(0))
       IN  IF r.ok
           THEN /\ proc_level' =
                       [proc_level EXCEPT !.l1_cache.instruction_size = r.val]
                /\ pc' = "apple_l1d"
                /\ UNCHANGED exit
           ELSE /\ ReturnErr
                /\ UNCHANGED proc_level
    /\ UNCHANGED <<os, arch, overflow_checks, world, architecture,
                   model_name, performance_levels, perf_levels, idx,
                   stderr, stdout, arg, ret>>

apple_l1d ==
    /\ pc = "apple_l1d"
    /\ queries' = Append(queries, Sysctl(perflevel(idx, "l1dcachesize")))
    /\ LET r == sysctl_usize(perflevel(idx, "l1dcachesize"), W(0))
       IN  IF r.ok
           THEN /\ proc_level' =
                       [proc_level EXCEPT !.l1_cache.data_size = r.val]
                /\ pc' = "apple_l2"
                /\ UNCHANGED exit
           ELSE /\ ReturnErr
                /\ UNCHANGED proc_level
    /\ UNCHANGED <<os, arch, overflow_checks, world, architecture,
                   model_name, performance_levels, perf_levels, idx,
                   stderr, stdout, arg, ret>>

apple_l2 ==
    /\ pc = "apple_l2"
    /\ queries' = Append(queries, Sysctl(perflevel(idx, "l2cachesize")))
    /\ LET r == sysctl_usize(perflevel(idx, "l2cachesize"), W(0))
       IN  IF r.ok
           THEN /\ proc_level' = [proc_level EXCEPT !.l2_cache = r.val]
                /\ IF apple_queries_l3(idx)
                   THEN /\ pc' = "apple_l3"
                        /\ UNCHANGED <<performance_levels, idx>>
                   ELSE apple_insert
                /\ UNCHANGED exit
           ELSE /\ ReturnErr
                /\ UNCHANGED <<proc_level, performance_levels, idx>>
    /\ UNCHANGED <<os, arch, overflow_checks, world, architecture,
                   model_name, perf_levels, stderr, stdout, arg, ret>>

apple_l3 ==
    /\ pc = "apple_l3"
    /\ queries' = Append(queries, Sysctl("hw.l3cachesize"))
    /\ LET r == sysctl_usize("hw.l3cachesize", W(0))
       IN  IF r.ok
           THEN /\ proc_level' = [proc_level EXCEPT !.l3_cache = r.val]
                /\ apple_insert
                /\ UNCHANGED exit
           ELSE /\ ReturnErr
                /\ UNCHANGED <<proc_level, performance_levels, idx>>
    /\ UNCHANGED <<os, arch, overflow_checks, world, architecture,
                   model_name, perf_levels, stderr, stdout, arg, ret>>

\* --- Intel mac -----------------------------------------------------------

\* `if let Ok(value) = run_sysctl(p) { field = value.parse().unwrap_or(0) }`
sysctl_or_keep(parameter, current) ==
    LET r == sysctl_usize(parameter, W(0))
    IN  IF r.ok THEN r.val ELSE current

intel_l1 ==
    /\ pc = "intel_l1"
    /\ queries' = Append(queries, Sysctl("hw.l1cachesize"))
    /\ LET r == run_sysctl("hw.l1cachesize")
       IN  IF r.ok /\ r.out # ""
           THEN /\ proc_level' =
                       [proc_level EXCEPT !.l1_cache.unified_size =
                            unwrap_or(parse_usize(r.out), W(0))]
                /\ pc' = "intel_l2"
           ELSE /\ pc' = "intel_l1i"
                /\ UNCHANGED proc_level
    /\ UNCHANGED <<os, arch, overflow_checks, world, architecture,
                   model_name, performance_levels, perf_levels, idx,
                   stderr, stdout, exit, arg, ret>>

intel_l1i ==
    /\ pc = "intel_l1i"
    /\ queries' = Append(queries, Sysctl("hw.l1icachesize"))
    /\ proc_level' =
           [proc_level EXCEPT !.l1_cache.instruction_size =
                sysctl_or_keep("hw.l1icachesize", @)]
    /\ pc' = "intel_l1d"
    /\ UNCHANGED <<os, arch, overflow_checks, world, architecture,
                   model_name, performance_levels, perf_levels, idx,
                   stderr, stdout, exit, arg, ret>>

intel_l1d ==
    /\ pc = "intel_l1d"
    /\ queries' = Append(queries, Sysctl("hw.l1dcachesize"))
    /\ proc_level' =
           [proc_level EXCEPT !.l1_cache.data_size =
                sysctl_or_keep("hw.l1dcachesize", @)]
    /\ pc' = "intel_l2"
    /\ UNCHANGED <<os, arch, overflow_checks, world, architecture,
                   model_name, performance_levels, perf_levels, idx,
                   stderr, stdout, exit, arg, ret>>

intel_l2 ==
    /\ pc = "intel_l2"
    /\ queries' = Append(queries, Sysctl("hw.l2cachesize"))
    /\ proc_level' =
           [proc_level EXCEPT !.l2_cache = sysctl_or_keep("hw.l2cachesize", @)]
    /\ pc' = "intel_l3"
    /\ UNCHANGED <<os, arch, overflow_checks, world, architecture,
                   model_name, performance_levels, perf_levels, idx,
                   stderr, stdout, exit, arg, ret>>

intel_l3 ==
    /\ pc = "intel_l3"
    /\ queries' = Append(queries, Sysctl("hw.l3cachesize"))
    /\ proc_level' =
           [proc_level EXCEPT !.l3_cache = sysctl_or_keep("hw.l3cachesize", @)]
    /\ performance_levels' = insert(performance_levels, "Default", proc_level')
    /\ pc' = "display"
    /\ UNCHANGED <<os, arch, overflow_checks, world, architecture,
                   model_name, perf_levels, idx, stderr, stdout, exit,
                   arg, ret>>

\* --- Linux ---------------------------------------------------------------

\* The indices scanned: `for i in 0..10`.
ScanWidth == 10

\* The match keeping a size already stored: the first index wins.
linux_store_first(level_rec, level, cache_type, size) ==
    IF level = W(1)
    THEN IF cache_type = "Data" /\ IsZero(level_rec.l1_cache.data_size)
         THEN [level_rec EXCEPT !.l1_cache.data_size = size]
         ELSE IF cache_type = "Instruction"
                 /\ IsZero(level_rec.l1_cache.instruction_size)
         THEN [level_rec EXCEPT !.l1_cache.instruction_size = size]
         ELSE IF cache_type = "Unified"
                 /\ IsZero(level_rec.l1_cache.unified_size)
         THEN [level_rec EXCEPT !.l1_cache.unified_size = size]
         ELSE level_rec
    ELSE IF level = W(2) /\ IsZero(level_rec.l2_cache)
    THEN [level_rec EXCEPT !.l2_cache = size]
    ELSE IF level = W(3) /\ IsZero(level_rec.l3_cache)
    THEN [level_rec EXCEPT !.l3_cache = size]
    ELSE level_rec

\* `match level { 1 => match cache_type ..., 2 => .., 3 => .., _ => {} }`
linux_store(level_rec, level, cache_type, size) ==
    IF level = W(1)
    THEN IF cache_type = "Data"
         THEN [level_rec EXCEPT !.l1_cache.data_size = size]
         ELSE IF cache_type = "Instruction"
         THEN [level_rec EXCEPT !.l1_cache.instruction_size = size]
         ELSE IF cache_type = "Unified"
         THEN [level_rec EXCEPT !.l1_cache.unified_size = size]
         ELSE level_rec
    ELSE IF level = W(2) THEN [level_rec EXCEPT !.l2_cache = size]
    ELSE IF level = W(3) THEN [level_rec EXCEPT !.l3_cache = size]
    ELSE level_rec

\* The attribute files of the cache directories.
LevelPath == [i \in 0..(ScanWidth - 1) |-> cache_dir(i) \o "/level"]

TypePath == [i \in 0..(ScanWidth - 1) |-> cache_dir(i) \o "/type"]

\* The size path built from the first directory for every index.
SizePath_first == [i \in 0..(ScanWidth - 1) |-> cache_dir(0) \o "/size"]

SizePath == [i \in 0..(ScanWidth - 1) |-> cache_dir(i) \o "/size"]

\* The scan state: the level so far, the files read so far, whether the
\* size parser panicked.
ScanState(level_rec, read, panicked) ==
    [val |-> level_rec, queries |-> read, panic |-> panicked]

\* What an unreadable attribute file does to the scan at index i, after
\* the files `read` were tried: `continue` with index i + 1.
linux_unreadable(st, i, read) == ScanState(st.val, st.queries \o read, FALSE)

\* The match on (level, cache_type), once the three files were read and
\* the size parsed.
linux_match(st, i, level, cache_type, size) ==
    IF size.panic
    THEN ScanState(st.val,
                   st.queries \o <<LevelPath[i], TypePath[i], SizePath[i]>>,
                   TRUE)
    ELSE ScanState(linux_store(st.val, level, cache_type, size.val),
                   st.queries \o <<LevelPath[i], TypePath[i], SizePath[i]>>,
                   FALSE)

\* The body of the loop, given what the three reads return; a read is made
\* only when the ones before it succeeded.
linux_body(st, i, level_file, type_file, size_file) ==
    IF ~level_file.ok THEN linux_unreadable(st, i, <<LevelPath[i]>>)
    ELSE IF ~type_file.ok
    THEN linux_unreadable(st, i, <<LevelPath[i], TypePath[i]>>)
    ELSE IF ~size_file.ok
    THEN linux_unreadable(st, i, <<LevelPath[i], TypePath[i], SizePath[i]>>)
    ELSE linux_match(st, i,
                     unwrap_or(parse_usize(trim(level_file.out)), W(0)),
                     trim(type_file.out),
                     parse_size_with_unit(trim(size_file.out)))

\* The iteration of the scan for index i.
linux_index(st, i) ==
    linux_body(st, i, read_file(LevelPath[i]), read_file(TypePath[i]),
               read_file(SizePath[i]))

\* `for i in 0..10 { .. }` from index i on, until a panic.
RECURSIVE linux_scan(_, _)
linux_scan(st, i) ==
    IF i >= ScanWidth \/ st.panic THEN st
    ELSE linux_scan(linux_index(st, i), i + 1)

\* The end of the scan st: the level is inserted, unless the scan panicked.
linux_insert(st) ==
    /\ queries' = queries \o st.queries
    /\ proc_level' = st.val
    /\ IF st.panic
       THEN /\ Panic
            /\ UNCHANGED performance_levels
       ELSE /\ performance_levels' =
                   insert(performance_levels, "Default", st.val)
            /\ pc' = "display"
            /\ UNCHANGED exit

collect_linux_cache_info ==
    /\ pc = "linux"
    /\ linux_insert(linux_scan(ScanState(ProcessorLevel_new("Default"),
                                         <<>>, FALSE), 0))
    /\ UNCHANGED <<os, arch, overflow_checks, world, architecture,
                   model_name, perf_levels, idx, stderr, stdout, arg, ret>>

\* --- Windows -------------------------------------------------------------

\* `if let Ok(size) = rest.trim().parse::<usize>() { field = size * 1024 }`:
\* the field as a product record, kept when the text does not parse.
wmic_kb(line, prefix, current) ==
    LET size == parse_usize(trim(trim_start_matches(line, prefix)))
    IN  IF size.ok THEN mul([panic |-> FALSE, val |-> size.val], 1024)
        ELSE [panic |-> FALSE, val |-> current]

\* The loop over the output's lines; r is [panic, val], val the level.
RECURSIVE windows_lines(_, _)
windows_lines(r, ls) ==
    IF r.panic \/ Len(ls) = 0 THEN r
    ELSE LET line == Head(ls)
             lv   == r.val
             f    == IF starts_with(line, "L1CacheSize=")
                     THEN wmic_kb(line, "L1CacheSize=",
                                  lv.l1_cache.unified_size)
                     ELSE IF starts_with(line, "L2CacheSize=")
                     THEN wmic_kb(line, "L2CacheSize=", lv.l2_cache)
                     ELSE IF starts_with(line, "L3CacheSize=")
                     THEN wmic_kb(line, "L3CacheSize=", lv.l3_cache)
                     ELSE [panic |-> FALSE, val |-> W(0)]
             next == IF starts_with(line, "L1CacheSize=")
                     THEN [lv EXCEPT !.l1_cache.unified_size = f.val]
                     ELSE IF starts_with(line, "L2CacheSize=")
                     THEN [lv EXCEPT !.l2_cache = f.val]
                     ELSE IF starts_with(line, "L3CacheSize=")
                     THEN [lv EXCEPT !.l3_cache = f.val]
                     ELSE lv
         IN  IF f.panic THEN [panic |-> TRUE]
             ELSE windows_lines([panic |-> FALSE, val |-> next], Tail(ls))

collect_windows_cache_info ==
    /\ pc = "windows"
    /\ queries' = Append(queries, WmicCache)
    /\ LET output == command_output(WmicCache)
           fresh == [panic |-> FALSE, val |-> ProcessorLevel_new("Default")]
           r == IF output.ok THEN windows_lines(fresh, lines(output.out))
                ELSE fresh
       IN  IF r.panic
           THEN /\ Panic
                /\ UNCHANGED <<proc_level, performance_levels>>
           ELSE /\ proc_level' = r.val
                /\ performance_levels' =
                       insert(performance_levels, "Default", r.val)
                /\ pc' = "display"
                /\ UNCHANGED exit
    /\ UNCHANGED <<os, arch, overflow_checks, world, architecture,
                   model_name, perf_levels, idx, stderr, stdout, arg, ret>>

\* ------------------------------------------------------------------------
\* Rendering and exit
\* ------------------------------------------------------------------------

\* The orders in which a HashMap with the key set S may be iterated.
Orders(S) ==
    {o \in [1..Cardinality(S) -> S] :
        \A j, k \in 1..Cardinality(S) : o[j] = o[k] => j = k}

\* println!("{}", processor_info.display()); Ok(())
display_and_exit ==
    /\ pc = "display"
    /\ \E order \in Orders(DOMAIN performance_levels) :
           stdout' = display(order) \o "\n"
    /\ exit' = "ok"
    /\ pc' = "done"
    /\ UNCHANGED <<os, arch, overflow_checks, world, architecture,
                   model_name, performance_levels, proc_level, perf_levels,
                   idx, queries, stderr, arg, ret>>

\* ------------------------------------------------------------------------
\* Hosts
\* ------------------------------------------------------------------------

\* Cache directories index0 .. index(MaxIndex - 1) may exist; none above.
MaxIndex == 3

\* The tier counts hw.nperflevels may report: 0 .. MaxTiers.
MaxTiers == 2

\* Sizes drawn for the unit level reach 1024^MaxPow.
MaxPow == 6

EmptyWorld == <<>>

\* The attribute files of cache directory i; an unreadable file is absent.
SysfsFiles(i, e) ==
    LET one(name) == IF e[name].ok
                     THEN (cache_dir(i) \o "/" \o name) :> e[name]
                     ELSE EmptyWorld
    IN  one("level") @@ one("type") @@ one("size")

RECURSIVE SysfsTree(_, _)
SysfsTree(f, k) ==
    IF k = 0 THEN EmptyWorld
    ELSE SysfsFiles(k - 1, f[k - 1]) @@ SysfsTree(f, k - 1)

Entry(level, type, size) == [level |-> level, type |-> type, size |-> size]

Readable(level, type, size) ==
    Entry(Success(level \o "\n"), Success(type \o "\n"),
          Success(size \o "\n"))

\* Directories with a missing attribute file.
UnreadableEntries ==
    { Entry(Failure, Failure, Failure),
      Entry(Success("1\n"), Failure, Failure),
      Entry(Success("1\n"), Success("Data\n"), Failure) }

\* The cache directories a host may expose.
SysfsEntries ==
    UnreadableEntries \cup
    { Readable("1", "Data", "32K"),
      Readable("1", "Data", "48K"),
      Readable("1", "Data", "abc"),
      Readable("1", "Instruction", "32K"),
      Readable("1", "Unified", "64K"),
      Readable("1", "Trace", "16K"),
      Readable("2", "Unified", "1M"),
      Readable("3", "Unified", "8192K"),
      Readable("3", "Unified", "18014398509481984K"),
      Readable("4", "Unified", "1M") }

CpuInfoText ==
    "processor\t: 0\nmodel name\t: Intel(R) Core(TM) i7 CPU @ 2.60GHz\n"
        \o "flags\t\t: fpu vme\n"

LinuxWorlds(entries, cpuinfo) ==
    { SysfsTree(f, MaxIndex) @@ c :
        f \in [0..(MaxIndex - 1) -> entries], c \in cpuinfo }

\* Every host: MaxIndex directories, each any of SysfsEntries.
LinuxHosts == LinuxWorlds(SysfsEntries, {CpuInfo :> Success(CpuInfoText)})

\* A sample of hosts: split L1, L2 and L3 present, one directory possibly
\* incomplete; /proc/cpuinfo readable or not, with or without the key.
LinuxSample ==
    LinuxWorlds(UnreadableEntries \cup
                    { Readable("1", "Data", "32K"),
                      Readable("2", "Unified", "1M") },
                { EmptyWorld,
                  CpuInfo :> Success(CpuInfoText),
                  CpuInfo :> Success("processor\t: 0\n") })

Num(n) == Success(ToString(n) \o "\n")

\* What sysctl may answer for the parameters of one tier.
TierWorlds(i) ==
    { (Sysctl(perflevel(i, "l1icachesize")) :> a)
        @@ (Sysctl(perflevel(i, "l1dcachesize")) :> b)
        @@ (Sysctl(perflevel(i, "l2cachesize")) :> c) :
        a \in {Failure, Num(131072), Num(65536)},
        b \in {Num(65536), Num(32768)},
        c \in {Failure, Num(4194304), Num(2097152)} }

RECURSIVE TiersWorlds(_)
TiersWorlds(n) ==
    IF n = 0 THEN {EmptyWorld}
    ELSE { t @@ w : t \in TierWorlds(n - 1), w \in TiersWorlds(n - 1) }

AppleBrand == Sysctl(BrandString) :> Success("Apple M1\n")

\* What `sysctl -n hw.nperflevels` may answer on a host with n tiers: the
\* count, nothing parseable (one tier), or no answer at all (no tier).
CountReplies(n) ==
    {Num(n)} \cup (IF n = 1 THEN {Success("\n")} ELSE {})
             \cup (IF n = 0 THEN {Failure} ELSE {})

L3Replies == {Failure, Success("\n"), Num(8388608)}

\* An Apple-silicon host: the tier count, the tiers' parameters, the L3 size.
AppleHost(count, tiers, l3) ==
    AppleBrand @@ (Sysctl("hw.nperflevels") :> count) @@ tiers
               @@ (Sysctl("hw.l3cachesize") :> l3)

\* The two-tier host of the specification's example.
AppleExample ==
    AppleBrand
    @@ (Sysctl("hw.nperflevels") :> Num(2))
    @@ (Sysctl("hw.perflevel0.l1icachesize") :> Num(131072))
    @@ (Sysctl("hw.perflevel0.l1dcachesize") :> Num(65536))
    @@ (Sysctl("hw.perflevel0.l2cachesize") :> Num(4194304))
    @@ (Sysctl("hw.l3cachesize") :> Num(8388608))
    @@ (Sysctl("hw.perflevel1.l1icachesize") :> Num(65536))
    @@ (Sysctl("hw.perflevel1.l1dcachesize") :> Num(32768))
    @@ (Sysctl("hw.perflevel1.l2cachesize") :> Num(2097152))

\* The example host, and the same with one command that cannot be run.
AppleSample ==
    {AppleExample} \cup
    { (k :> Failure) @@ AppleExample : k \in DOMAIN AppleExample }

\* Intel macs: a unified L1 parameter or separate ones, L2, L3.
IntelHosts ==
    { (Sysctl(BrandString) :> brand)
        @@ (Sysctl("hw.l1cachesize") :> l1)
        @@ (Sysctl("hw.l1icachesize") :> l1i)
        @@ (Sysctl("hw.l1dcachesize") :> l1d)
        @@ (Sysctl("hw.l2cachesize") :> l2)
        @@ (Sysctl("hw.l3cachesize") :> l3) :
        brand \in {Failure, Success("Intel(R) Core(TM) i7-9750H\n")},
        l1 \in {Failure, Success("\n"), Num(65536)},
        l1i \in {Failure, Num(32768)},
        l1d \in {Failure, Num(32768), Success("abc\n")},
        l2 \in {Failure, Num(262144)},
        l3 \in {Failure, Num(12582912)} }

WmicNameReplies ==
    { Failure, Success("\r\nName=Intel(R) Core(TM) i7-9750H  \r\n\r\n"),
      Success("") }

WmicCacheReplies ==
    { Failure, Success(""),
      Success("\r\nL1CacheSize=\r\nL2CacheSize=1536\r\nL3CacheSize=12288\r\n"),
      Success("L1CacheSize=384\r\nL2CacheSize=abc\r\nL3CacheSize=12288\r\n"),
      Success("L2CacheSize=1536\r\nL2CacheSize=3072\r\nL3CacheSize=\r\n"),
      Success("L2CacheSize=1536\r\nL3CacheSize=18014398509481984\r\n") }

WindowsHosts ==
    { (WmicName :> n) @@ (WmicCache :> c) :
        n \in WmicNameReplies, c \in WmicCacheReplies }

\* The (OS, architecture) pairs the program is built for.
Targets ==
    { <<"macos", "aarch64">>, <<"macos", "x86_64">>,
      <<"linux", "x86_64">>, <<"linux", "x86">>, <<"linux", "aarch64">>,
      <<"linux", "arm">>, <<"linux", "riscv64">>,
      <<"windows", "x86_64">>, <<"windows", "aarch64">>,
      <<"freebsd", "x86_64">>, <<"freebsd", "aarch64">>,
      <<"freebsd", "powerpc64">> }

\* ------------------------------------------------------------------------
\* Specifications
\* ------------------------------------------------------------------------

\* The state after ProcessorInfo::new() on target t, on host w.
Start(t, w) ==
    /\ os = t[1]
    /\ arch = t[2]
    /\ world = w
    /\ overflow_checks \in BOOLEAN
    /\ pc = "detect_architecture"
    /\ architecture = t[2]
    /\ model_name = ""
    /\ performance_levels = <<>>
    /\ proc_level = ProcessorLevel_new("")
    /\ perf_levels = W(0)
    /\ idx = 0
    /\ queries = <<>>
    /\ stderr = <<>>
    /\ stdout = ""
    /\ exit = "running"
    /\ arg = <<>>
    /\ ret = <<>>

SampleHosts(target_os) ==
    IF target_os = "macos" THEN AppleSample \cup IntelHosts
    ELSE IF target_os = "linux" THEN LinuxSample
    ELSE IF target_os = "windows" THEN WindowsHosts
    ELSE {EmptyWorld}

\* Every target, on a sample of hosts.
Init == \E t \in Targets : \E w \in SampleHosts(t[1]) : Start(t, w)

Next ==
    \/ detect_architecture
    \/ detect_model_name
    \/ collect_cache_info
    \/ apple_nperflevels
    \/ apple_level
    \/ apple_l1i
    \/ apple_l1d
    \/ apple_l2
    \/ apple_l3
    \/ intel_l1
    \/ intel_l1i
    \/ intel_l1d
    \/ intel_l2
    \/ intel_l3
    \/ collect_linux_cache_info
    \/ collect_windows_cache_info
    \/ display_and_exit

Spec == Init /\ [][Next]_vars

\* Linux on x86_64, on every host of LinuxHosts.
InitLinux == \E w \in LinuxHosts : Start(<<"linux", "x86_64">>, w)

NextLinux ==
    \/ detect_architecture
    \/ detect_model_name
    \/ collect_cache_info
    \/ collect_linux_cache_info
    \/ display_and_exit

SpecLinux == InitLinux /\ [][NextLinux]_vars

\* macOS on aarch64, on every host with up to MaxTiers tiers.
InitApple ==
    \E n \in 0..MaxTiers : \E count \in CountReplies(n) :
        \E tiers \in TiersWorlds(n) : \E l3 \in L3Replies :
            Start(<<"macos", "aarch64">>, AppleHost(count, tiers, l3))

NextApple ==
    \/ detect_architecture
    \/ detect_model_name
    \/ collect_cache_info
    \/ apple_nperflevels
    \/ apple_level
    \/ apple_l1i
    \/ apple_l1d
    \/ apple_l2
    \/ apple_l3
    \/ display_and_exit

SpecApple == InitApple /\ [][NextApple]_vars

\* ------------------------------------------------------------------------
\* The unit level: one call of a pure function on one input
\* ------------------------------------------------------------------------

\* a * 1024^k
RECURSIVE Shift1024(_, _)
Shift1024(a, k) == IF k = 0 THEN a ELSE Shift1024(MulAdd(a, 1024, 0), k - 1)

\* usize::MAX
UsizeMax == [j \in 1..WordLimbs |-> Base - 1]

\* The sizes drawn: (m * 1024 + d) * 1024^k where it fits a usize, the
\* last sizes below 1024^2 and 1024^3, the largest usize, and 2^53 + 1,
\* which no f64 holds.
Sizes ==
    { Wrap(n) : n \in { x \in { Shift1024(W(m * 1024 + d), k) :
                                   m \in {0, 1, 2, 15, 1023},
                                   d \in {0, 1, 64, 512, 1023},
                                   k \in 0..MaxPow } : Fits(x) } }
    \cup {W(1024 * 1024 - 1), W(1024 * 1024 * 1024 - 1), UsizeMax,
          <<1, 0, 0, 32>>}

Suffixes == {"", "K", "M", "G"}

\* Tokens that are not a decimal number followed by a suffix.
OtherTokens ==
    {"abc", "K", "", " 32K", "+5K", "-5K", "12x", "32KB", "32k", "1.5M", "M1"}

\* The levels drawn: each field one of a few sizes.
Levels ==
    { [level_name |-> name,
       l1_cache |-> [instruction_size |-> i, data_size |-> d,
                     unified_size |-> u],
       l2_cache |-> l2, l3_cache |-> l3] :
        name \in {"Default", "Performance Cores"},
        i \in {W(0), W(32768)}, d \in {W(0), W(512), W(49152)},
        u \in {W(0), W(65536)}, l2 \in {W(0), W(1048576)},
        l3 \in {W(0), Shift1024(W(1), 3)} }

\* A call of fn on the input input, about to be made on an idle program.
Call(fn, input) ==
    /\ os = "linux"
    /\ arch = "x86_64"
    /\ world = EmptyWorld
    /\ overflow_checks \in BOOLEAN
    /\ pc = "call"
    /\ architecture = "x86_64"
    /\ model_name = ""
    /\ performance_levels = <<>>
    /\ proc_level = ProcessorLevel_new("")
    /\ perf_levels = W(0)
    /\ idx = 0
    /\ queries = <<>>
    /\ stderr = <<>>
    /\ stdout = ""
    /\ exit = "running"
    /\ arg = <<fn>> \o input
    /\ ret = <<>>

InitUnit ==
    \/ \E n \in Sizes : \E s \in Suffixes :
           Call("parse_size_with_unit", <<to_string(n) \o s, n, s>>)
    \/ \E t \in OtherTokens : Call("parse_size_with_unit", <<t>>)
    \/ \E n \in Sizes : Call("format_size", <<n>>)
    \/ \E l \in Levels : Call("ProcessorLevel_format", <<l>>)

Return(value) ==
    /\ ret' = <<value>>
    /\ pc' = "returned"
    /\ UNCHANGED <<os, arch, overflow_checks, world, architecture,
                   model_name, performance_levels, proc_level, perf_levels,
                   idx, queries, stderr, stdout, exit, arg>>

call_parse_size_with_unit ==
    /\ pc = "call"
    /\ arg[1] = "parse_size_with_unit"
    /\ Return(parse_size_with_unit(arg[2]))

call_format_size ==
    /\ pc = "call"
    /\ arg[1] = "format_size"
    /\ Return(format_size(arg[2]))

call_ProcessorLevel_format ==
    /\ pc = "call"
    /\ arg[1] = "ProcessorLevel_format"
    /\ Return(ProcessorLevel_format(arg[2]))

NextUnit ==
    \/ call_parse_size_with_unit
    \/ call_format_size
    \/ call_ProcessorLevel_format

SpecUnit == InitUnit /\ [][NextUnit]_vars

\* ------------------------------------------------------------------------
\* Properties of the unit level (SpecUnit)
\* ------------------------------------------------------------------------

\* Equality of two naturals given with any numbers of limbs.
Same(a, b) == ~Less(a, b) /\ ~Less(b, a)

Returned(fn) == pc = "returned" /\ arg[1] = fn

\* The power of 1024 a suffix stands for.
suffix_power(s) ==
    IF s = "K" THEN 1 ELSE IF s = "M" THEN 2 ELSE IF s = "G" THEN 3 ELSE 0

\* C2: for every natural n that fits the machine word and every suffix s
\* of "", "K", "M", "G", parse_size_with_unit(str(n) + s) returns
\* n * multiplier(s), the multiplier being 1, 1024, 1024^2, 1024^3.
C2_parse_scales ==
    (Returned("parse_size_with_unit") /\ Len(arg) = 4)
        => /\ ~ret[1].panic
           /\ Same(ret[1].val, Shift1024(arg[3], suffix_power(arg[4])))

\* C8: parse_size_with_unit returns a value for every token, and a token
\* with no leading digit gives 0.
C8_parse_total ==
    Returned("parse_size_with_unit")
        => /\ ~ret[1].panic
           /\ (take_while_digit(arg[2]) = "" => IsZero(ret[1].val))

\* The unit a rendered size ends with.
unit_of(text) ==
    IF ends_with(text, " KB") THEN "KB"
    ELSE IF ends_with(text, " MB") THEN "MB"
    ELSE IF ends_with(text, " GB") THEN "GB"
    ELSE IF ends_with(text, " B") THEN "B"
    ELSE "none"

\* The unit the thresholds give a size above 0.
unit_for(size) ==
    IF Less(size, W(1024)) THEN "B"
    ELSE IF Less(size, Shift1024(W(1), 2)) THEN "KB"
    ELSE IF Less(size, Shift1024(W(1), 3)) THEN "MB"
    ELSE "GB"

\* C7: format_size(0) is "Not detected"; a size above 0 is rendered in B
\* below 1024, in KB from 1024 and below 1024^2, in MB from 1024^2 and
\* below 1024^3, in GB from 1024^3 on; the byte case is the bare integer
\* followed by " B"; 512 gives "512 B", 2048 KB, 1048576 MB, 1073741824 GB.
C7_format_size_units ==
    Returned("format_size")
        => /\ (IsZero(arg[2]) <=> ret[1] = "Not detected")
           /\ (~IsZero(arg[2]) => unit_of(ret[1]) = unit_for(arg[2]))
           /\ (unit_of(ret[1]) = "B"
                 => parse_usize(SubSeq(ret[1], 1, Len(ret[1]) - 2))
                      = [ok |-> TRUE, val |-> arg[2]])
           /\ (arg[2] = W(512) => ret[1] = "512 B")
           /\ (arg[2] = W(2048) => unit_of(ret[1]) = "KB")
           /\ (arg[2] = W(1048576) => unit_of(ret[1]) = "MB")
           /\ (arg[2] = Shift1024(W(1), 3) => unit_of(ret[1]) = "GB")

\* One byte below 1024^2 is still rendered in KB.
C7_witness ==
    /\ Returned("format_size")
    /\ arg[2] = W(1024 * 1024 - 1)
    /\ ret[1] = "1024.00 KB"

\* The labels of rendered lines: the text before the colon.
RECURSIVE labels(_)
labels(ls) ==
    IF Len(ls) = 0 THEN <<>> ELSE <<Before(Head(ls), ":")>> \o labels(Tail(ls))

\* The labels the claim gives a level, after the name and the underline.
expected_labels(level) ==
    (IF ~IsZero(level.l1_cache.unified_size) THEN <<"L1 Cache (Unified)">>
     ELSE (IF ~IsZero(level.l1_cache.instruction_size)
           THEN <<"L1 Instruction Cache">> ELSE <<>>)
          \o (IF ~IsZero(level.l1_cache.data_size)
              THEN <<"L1 Data Cache">> ELSE <<>>))
    \o <<"L2 Cache">>
    \o (IF ~IsZero(level.l3_cache) THEN <<"L3 Cache">> ELSE <<>>)

\* C6: after the name and its underline, a level renders as one unified L1
\* line and no instruction or data line when unified is above 0, otherwise
\* an instruction line iff instruction is above 0 and a data line iff data
\* is above 0, never "Not detected" for an L1 part; then exactly one L2
\* line, "L2 Cache: Not detected" when L2 is 0; then an L3 line iff L3 is
\* above 0.
C6_rendered_lines ==
    Returned("ProcessorLevel_format")
        => /\ Len(ret[1]) >= 2
           /\ ret[1][1] = "\n" \o arg[2].level_name
           /\ labels(SubSeq(ret[1], 3, Len(ret[1]))) = expected_labels(arg[2])
           /\ \A j \in 3..Len(ret[1]) :
                  /\ starts_with(ret[1][j], "L1")
                        => ~contains(ret[1][j], "Not detected")
                  /\ (starts_with(ret[1][j], "L2") /\ IsZero(arg[2].l2_cache))
                        => ret[1][j] = "L2 Cache: Not detected"

\* A level with unified and instruction sizes, no L2, an L3.
C6_witness ==
    /\ Returned("ProcessorLevel_format")
    /\ ~IsZero(arg[2].l1_cache.instruction_size)
    /\ ret[1] = <<"\nDefault", "-------", "L1 Cache (Unified): 64.00 KB",
                  "L2 Cache: Not detected", "L3 Cache: 1.00 GB">>

\* ------------------------------------------------------------------------
\* Properties of the Linux scan (SpecLinux)
\* ------------------------------------------------------------------------

\* Directory i has its three attribute files readable.
Complete(i) ==
    /\ read_file(LevelPath[i]).ok
    /\ read_file(TypePath[i]).ok
    /\ read_file(SizePath[i]).ok

\* The level, the type and the parsed size directory i gives.
LevelOf(i) == unwrap_or(parse_usize(trim(read_file(LevelPath[i]).out)), W(0))

TypeOf(i) == trim(read_file(TypePath[i]).out)

SizeOf(i) == parse_size_with_unit(trim(read_file(SizePath[i]).out)).val

\* Whether directory i dispatches to the field.
Feeds(i, field) ==
    /\ Complete(i)
    /\ \/ field = "l1d" /\ LevelOf(i) = W(1) /\ TypeOf(i) = "Data"
       \/ field = "l1i" /\ LevelOf(i) = W(1) /\ TypeOf(i) = "Instruction"
       \/ field = "l1u" /\ LevelOf(i) = W(1) /\ TypeOf(i) = "Unified"
       \/ field = "l2" /\ LevelOf(i) = W(2)
       \/ field = "l3" /\ LevelOf(i) = W(3)

\* The size of the highest directory feeding the field, 0 without one.
LastFed(field) ==
    LET fed == {i \in 0..(ScanWidth - 1) : Feeds(i, field)}
    IN  IF fed = {} THEN W(0)
        ELSE SizeOf(CHOOSE i \in fed : \A j \in fed : j <= i)

\* The host of the example: directories 0 to 2 only.
LinuxExample ==
    SysfsTree([i \in 0..2 |->
                  IF i = 0 THEN Readable("1", "Data", "32K")
                  ELSE IF i = 1 THEN Readable("1", "Instruction", "32K")
                  ELSE Readable("2", "Unified", "1M")], 3)
    @@ (CpuInfo :> Success(CpuInfoText))

ScanDone == pc \in {"display", "done"} /\ exit # "panic"

\* C3: after the scan of directories 0 to 9 the single "Default" level
\* holds in each of its five fields the parsed size of the highest
\* directory whose three files are readable and which dispatches to the
\* field, 0 without one; directories 0 to 2 = (1, Data, "32K"),
\* (1, Instruction, "32K"), (2, Unified, "1M") give 32768, 32768, 0,
\* 1048576, 0.
C3_last_readable_wins ==
    ScanDone
        => /\ DOMAIN performance_levels = {"Default"}
           /\ performance_levels["Default"] =
                  [level_name |-> "Default",
                   l1_cache |-> [instruction_size |-> LastFed("l1i"),
                                 data_size |-> LastFed("l1d"),
                                 unified_size |-> LastFed("l1u")],
                   l2_cache |-> LastFed("l2"), l3_cache |-> LastFed("l3")]
           /\ (world = LinuxExample
                 => performance_levels["Default"] =
                      [level_name |-> "Default",
                       l1_cache |-> [instruction_size |-> W(32768),
                                     data_size |-> W(32768),
                                     unified_size |-> W(0)],
                       l2_cache |-> W(1048576), l3_cache |-> W(0)])

\* Directory 0 holds 32K of L1 data, directory 1 lacks a file, directory 2
\* holds 48K of L1 data: the level ends with 48K.
C3_witness ==
    /\ pc = "done"
    /\ exit = "ok"
    /\ Feeds(0, "l1d") /\ SizeOf(0) = W(32768)
    /\ ~Complete(1)
    /\ Feeds(2, "l1d")
    /\ performance_levels["Default"].l1_cache.data_size = W(49152)

\* C5: in every level the unified L1 size is never above 0 together with
\* an instruction or data size above 0.
C5_l1_groups_exclusive ==
    \A k \in DOMAIN performance_levels :
        \/ IsZero(performance_levels[k].l1_cache.unified_size)
        \/ /\ IsZero(performance_levels[k].l1_cache.instruction_size)
           /\ IsZero(performance_levels[k].l1_cache.data_size)

\* ------------------------------------------------------------------------
\* Properties of the Apple-silicon branch (SpecApple)
\* ------------------------------------------------------------------------

\* What a parameter's query yields as a number, `default` when it does not
\* parse.
queried(parameter, default) ==
    unwrap_or(parse_usize(run_sysctl(parameter).out), default)

\* The tier count the host reports, 1 by default.
TierCount == queried("hw.nperflevels", W(1))[1]

tier_name(i) ==
    IF i = 0 THEN "Performance Cores"
    ELSE "Efficiency Cores (Level " \o ToString(i) \o ")"

tier_parameter(i, what) == "hw.perflevel" \o ToString(i) \o "." \o what

\* Every query of the branch can be run.
AllSucceed ==
    /\ run_sysctl("hw.nperflevels").ok
    /\ \A i \in 0..(TierCount - 1) :
           /\ run_sysctl(tier_parameter(i, "l1icachesize")).ok
           /\ run_sysctl(tier_parameter(i, "l1dcachesize")).ok
           /\ run_sysctl(tier_parameter(i, "l2cachesize")).ok
    /\ TierCount > 0 => run_sysctl("hw.l3cachesize").ok

\* One level per tier, keyed by its name, with the values of its own tier
\* (0 for a value that was not obtained) and the L3 size on tier 0 only.
TiersDetected ==
    /\ DOMAIN performance_levels = {tier_name(i) : i \in 0..(TierCount - 1)}
    /\ Cardinality(DOMAIN performance_levels) = TierCount
    /\ \A i \in 0..(TierCount - 1) :
           performance_levels[tier_name(i)] =
               [level_name |-> tier_name(i),
                l1_cache |->
                    [instruction_size |->
                         queried(tier_parameter(i, "l1icachesize"), W(0)),
                     data_size |->
                         queried(tier_parameter(i, "l1dcachesize"), W(0)),
                     unified_size |-> W(0)],
                l2_cache |-> queried(tier_parameter(i, "l2cachesize"), W(0)),
                l3_cache |-> IF i = 0 THEN queried("hw.l3cachesize", W(0))
                             ELSE W(0)]

\* C1: a query that fails leaves only its own value at the default (0, or
\* 1 for the tier count) and detection still returns success with the
\* remaining values and levels detected.
C1_best_effort == pc = "done" => (exit = "ok" /\ TiersDetected)

\* C4: with every query succeeding and tier count N the model ends with
\* N levels with distinct names, each under its own name, "Performance
\* Cores" for tier 0 and "Efficiency Cores (Level i)" for tier i above 0,
\* each with the L1 instruction, L1 data and L2 values of its tier, the
\* global L3 value on tier 0 only; the two-tier example gives L3 = 8388608
\* on "Performance Cores" and 0 on "Efficiency Cores (Level 1)".
C4_apple_tiers ==
    (pc = "done" /\ AllSucceed)
        => /\ TiersDetected
           /\ (world = AppleExample
                 => performance_levels =
                      ("Performance Cores" :>
                          [level_name |-> "Performance Cores",
                           l1_cache |-> [instruction_size |-> W(131072),
                                         data_size |-> W(65536),
                                         unified_size |-> W(0)],
                           l2_cache |-> W(4194304),
                           l3_cache |-> W(8388608)])
                      @@ ("Efficiency Cores (Level 1)" :>
                          [level_name |-> "Efficiency Cores (Level 1)",
                           l1_cache |-> [instruction_size |-> W(65536),
                                         data_size |-> W(32768),
                                         unified_size |-> W(0)],
                           l2_cache |-> W(2097152),
                           l3_cache |-> W(0)]))

\* The run on the two-tier example is over, both levels rendered.
C4_witness ==
    /\ pc = "done"
    /\ world = AppleExample
    /\ DOMAIN performance_levels =
           {"Performance Cores", "Efficiency Cores (Level 1)"}
    /\ contains(stdout, "Efficiency Cores (Level 1)")

\* ------------------------------------------------------------------------
\* Properties of the whole run (Spec)
\* ------------------------------------------------------------------------

Supported == os \in {"macos", "linux", "windows"}

\* C9: on an OS other than "macos", "linux", "windows" the collection
\* emits one diagnostic, leaves the level mapping empty and the rest of
\* the model as it was, and returns success: the run renders the
\* architecture line and the header, no level section, and ends normally.
C9_unsupported_os ==
    (~Supported /\ pc \in {"display", "done"})
        => /\ stderr = <<"Unsupported operating system: " \o os>>
           /\ performance_levels = <<>>
           /\ model_name = ""
           /\ exit # "err"
           /\ pc = "done"
                 => /\ exit = "ok"
                    /\ stdout = "Architecture: " \o architecture \o " - "
                                   \o arch \o "\n\nCache Information:\n"
                                   \o "==================\n"

C9_witness ==
    /\ os = "freebsd"
    /\ arch = "aarch64"
    /\ pc = "done"
    /\ exit = "ok"
    /\ Len(stderr) = 1
    /\ architecture = "ARM"

\* How often the query q was attempted.
Attempts(q) == Cardinality({j \in 1..Len(queries) : queries[j] = q})

\* C10: in one run each distinct external query is attempted exactly
\* once, on every platform branch, macOS on ARM included.
C10_each_query_once == \A j \in 1..Len(queries) : Attempts(queries[j]) = 1

MacArm == os = "macos" /\ arch \in {"aarch64", "arm", "arm64"}

\* C10 as amended: each distinct external query is attempted exactly once,
\* except the brand-string query on macOS on ARM, which the ARM refinement
\* and the model-name detection each attempt once.
C10_once_but_brand_string ==
    /\ \A j \in 1..Len(queries) :
           Attempts(queries[j]) <=
               IF MacArm /\ queries[j] = Sysctl(BrandString) THEN 2 ELSE 1
    /\ (MacArm /\ pc \notin {"detect_architecture", "detect_model_name"})
          => Attempts(Sysctl(BrandString)) = 2

\* An Apple-silicon run is over with the brand string queried twice and
\* the L3 size once.
C10_witness ==
    /\ pc = "done"
    /\ architecture = "Apple Silicon"
    /\ Attempts(Sysctl(BrandString)) = 2
    /\ Attempts(Sysctl("hw.l3cachesize")) = 1
    /\ Len(queries) = 10

====
